---- MODULE Spec2Model ----
(***************************************************************************)
(* Model of the SirensForge LoRA training worker (runpod/train_lora.py):   *)
(* the poll loop of worker_main run by several worker processes against   *)
(* one job store (Supabase table user_loras) and one blob store (R2), and  *)
(* the schema-safe PATCH client sb_patch_safe.                             *)
(***************************************************************************)
EXTENDS Integers, Sequences, FiniteSets, TLC

(* ---------------- bounds of the model ---------------- *)
NumWorkers == 2
NumJobs == 2

Workers == 1..NumWorkers
Jobs == 1..NumJobs

(* Python None, for string-valued and for job-valued slots *)
None == "None"
NoJob == 0
NoCount == -1
NoFile == -1

(* ---------------- program constants ---------------- *)
MIN_IMAGES == 10
MAX_IMAGES == 20
TARGET_SAMPLES == 1200
ARTIFACT_MIN_BYTES == 2 * 1024 * 1024
PATCH_ATTEMPTS == 12
FETCH_LIMIT == 1
R2_ARTIFACT_PREFIX_ROOT == "loras"

(* columns the worker ever puts into a PATCH body *)
Columns ==
  {"status", "progress", "error_message", "artifact_r2_bucket",
   "artifact_r2_key", "dataset_r2_bucket", "dataset_r2_prefix",
   "image_count", "trigger_token"}

(* the narrow projection of a user_loras row that the model keeps; user_id *)
(* and created_at are written by the producer only                        *)
RowFields ==
  {"id", "status", "progress", "error_message", "artifact_r2_key", "user_id",
   "created_at"}

VARIABLES
  db,                \* user_loras: job id -> row
  r2_images,         \* image and other objects under lora_datasets/<id>/ in R2
  r2_artifacts,      \* artifact key -> size of the object stored there (NoFile if none)
  pc,                \* position of each worker in worker_main
  lora_id,           \* worker_main local lora_id
  artifact_uploaded, \* worker_main local artifact_uploaded
  uploaded_r2_key,   \* worker_main local uploaded_r2_key
  count,             \* prepare_dataset local count of the current cycle
  proc,              \* the training subprocess spawned in the current cycle
  out_file,          \* size of the file at the artifact path on the worker's disk
  e,                 \* str(e) of the exception being handled
  claim_result,      \* number of rows the claim PATCH returned in the current cycle
  local_dirs,        \* which of train_dir, out_dir of the current job exist on the worker's disk
  scratch,           \* files in _tmp and in the final <repeat>_<trigger> dir of train_dir
  p_payload,         \* sb_patch_safe: the payload argument
  p_working,         \* sb_patch_safe: the working copy
  p_attempt,         \* sb_patch_safe: requests sent so far
  p_state,           \* sb_patch_safe: "idle", "running", "returned", "raised"
  p_r,               \* sb_patch_safe: r, the response to the last request
  u_raw,             \* sanitize_uuid: the argument raw, a sequence of characters
  u_state,           \* sanitize_uuid: "pending", "returned", "raised"
  u_out,             \* sanitize_uuid: the string returned
  cache_files,       \* LORA_CACHE_DIR: filename -> size of the file at its final path
  c_pc,              \* position of each caller in ensure_lora_cached
  c_filename,        \* ensure_lora_cached: argument filename
  c_expected,        \* ensure_lora_cached: argument expected_size_bytes
  c_remote,          \* chunks the response to the caller's GET delivers
  c_tmp,             \* size of the caller's temp file (NoFile if none)
  total_written,     \* ensure_lora_cached: local total_written
  c_requested,       \* whether the call has issued its HTTP request
  c_result           \* the path the call returned

storeVars == <<db, r2_images, r2_artifacts>>
workerVars == <<pc, lora_id, artifact_uploaded, uploaded_r2_key, count, proc,
                out_file, e, claim_result, local_dirs, scratch>>
patchVars == <<p_payload, p_working, p_attempt, p_state, p_r>>
uuidVars == <<u_raw, u_state, u_out>>
cacheVars == <<cache_files, c_pc, c_filename, c_expected, c_remote, c_tmp,
               total_written, c_requested, c_result>>
libVars == <<uuidVars, cacheVars>>
vars == <<storeVars, workerVars, patchVars, libVars>>

(* ------------------------------------------------------------------ *)
(* UUID hardening                                                       *)
(* ------------------------------------------------------------------ *)

(* bounds: hex digits of a UUID (32 in uuid.UUID) and longest raw string *)
UuidHex == 2
MaxRaw == 4

(* characters of a raw id: hex digits, one also in upper case, the hyphen, a space, *)
(* a control character, a character that is no hex digit, and the three   *)
(* characters of the prefix id= taken as one                              *)
HexDigits == {"a", "b", "A"}
ControlChars == {"\n"}
RawChars == HexDigits \cup ControlChars \cup {"-", " ", "g", "id="}

RECURSIVE SeqsUpTo(_, _)
SeqsUpTo(S, n) ==
  IF n = 0 THEN {<<>>}
  ELSE LET shorter == SeqsUpTo(S, n - 1)
       IN shorter \cup {Append(q, c) : q \in {x \in shorter : Len(x) = n - 1}, c \in S}

RawIds == SeqsUpTo(RawChars, MaxRaw)

(* CONTROL_CHARS_RE.sub("", s) *)
RemoveControl(s) == SelectSeq(s, LAMBDA ch : ch \notin ControlChars)

(* str.strip() *)
RECURSIVE Strip(_)
Strip(s) ==
  IF s = <<>> THEN s
  ELSE IF Head(s) = " " THEN Strip(Tail(s))
  ELSE IF s[Len(s)] = " " THEN Strip(SubSeq(s, 1, Len(s) - 1))
  ELSE s

Lower(ch) == IF ch = "A" THEN "a" ELSE ch

(* str(uuid.UUID(clean)): hyphens dropped anywhere, exactly UuidHex hex    *)
(* digits required, printed in lower case; the groups of the canonical    *)
(* form are scaled to one hyphen after the first digit                    *)
uuid_UUID(clean) ==
  LET hex == SelectSeq(clean, LAMBDA ch : ch # "-") IN
  IF Len(hex) # UuidHex \/ \E i \in 1..Len(hex) : hex[i] \notin HexDigits
    THEN [ok |-> FALSE, out |-> <<>>]
    ELSE [ok |-> TRUE,
          out |-> <<Lower(hex[1]), "-">> \o [i \in 1..(Len(hex) - 1) |-> Lower(hex[i + 1])]]

(* UUID_RE on the scaled canonical form *)
UUID_RE(out) ==
  /\ Len(out) = UuidHex + 1
  /\ out[2] = "-"
  /\ \A i \in (1..Len(out)) \ {2} : out[i] \in HexDigits

(* sanitize_uuid(raw, field) for a raw that is a string *)
sanitize_uuid(raw) ==
  LET no_ctl == RemoveControl(raw)
      stripped == Strip(no_ctl)
      clean == IF stripped # <<>> /\ Head(stripped) = "id="
                 THEN Strip(Tail(stripped))
                 ELSE stripped
      u == uuid_UUID(clean)
  IN IF ~u.ok THEN [raised |-> TRUE, out |-> <<>>]
     ELSE IF ~UUID_RE(u.out) THEN [raised |-> TRUE, out |-> <<>>]
     ELSE [raised |-> FALSE, out |-> u.out]

(* the id of row j as the store keeps it: a canonical UUID, its digits   *)
(* the binary digits of j - 1 written with a and b                       *)
Digit(j, i) == IF ((j - 1) \div (2 ^ (i - 1))) % 2 = 0 THEN "a" ELSE "b"

CanonicalId(j) ==
  <<Digit(j, 1), "-">> \o [i \in 1..(UuidHex - 1) |-> Digit(j, i + 1)]

(* an id that is no UUID whatever is stripped from it *)
BadId == <<"g">>

SanitizeUuid ==
  /\ u_state = "pending"
  /\ LET res == sanitize_uuid(u_raw) IN
       /\ u_state' = IF res.raised THEN "raised" ELSE "returned"
       /\ u_out' = res.out
  /\ UNCHANGED <<u_raw, storeVars, workerVars, patchVars, cacheVars>>

(* ------------------------------------------------------------------ *)
(* LoRA cache helper (lib/lora_cache.py)                                *)
(* ------------------------------------------------------------------ *)

(* bound: the largest download, in chunks of CHUNK_SIZE *)
MaxChunks == 2

(* processes or threads of the pod that call ensure_lora_cached *)
Callers == {"c1", "c2"}

Filenames == {"sf_1.safetensors", "sf_2.safetensors"}

LORA_CACHE_DIR == "/workspace/cache/loras"

(* expected_size_bytes = None *)
NoExpected == -1

ExpectedSizes == {NoExpected} \cup (0..MaxChunks)

lora_local_path(filename) == LORA_CACHE_DIR \o "/" \o filename

(* a cache lookup that never hits *)
is_cached_never(filename) == FALSE

(* os.path.isfile(path) and os.path.getsize(path) > 0 *)
is_cached(filename) == cache_files[filename] # NoFile /\ cache_files[filename] > 0

(* lines 61-83: a call with its arguments *)
CallEnsure(c) ==
  /\ c_pc[c] \in {"idle", "returned", "raised"}
  /\ \E filename \in Filenames, expected_size_bytes \in ExpectedSizes :
       /\ c_filename' = [c_filename EXCEPT ![c] = filename]
       /\ c_expected' = [c_expected EXCEPT ![c] = expected_size_bytes]
  /\ c_pc' = [c_pc EXCEPT ![c] = "called"]
  /\ c_requested' = [c_requested EXCEPT ![c] = FALSE]
  /\ c_result' = [c_result EXCEPT ![c] = None]
  /\ UNCHANGED <<cache_files, c_remote, c_tmp, total_written>>

(* lines 85-95: the fast path, or the creation of the temp file *)
CheckCached(c) ==
  /\ c_pc[c] = "called"
  /\ IF is_cached(c_filename[c])
       THEN /\ c_pc' = [c_pc EXCEPT ![c] = "returned"]
            /\ c_result' = [c_result EXCEPT ![c] = lora_local_path(c_filename[c])]
            /\ UNCHANGED c_tmp
       ELSE /\ c_pc' = [c_pc EXCEPT ![c] = "request"]
            /\ c_tmp' = [c_tmp EXCEPT ![c] = 0]
            /\ UNCHANGED c_result
  /\ UNCHANGED <<cache_files, c_filename, c_expected, c_remote, total_written,
                 c_requested>>

(* lines 98-105: requests.get and raise_for_status *)
RequestFile(c) ==
  /\ c_pc[c] = "request"
  /\ c_requested' = [c_requested EXCEPT ![c] = TRUE]
  /\ \E ok \in BOOLEAN :
       IF ok
         THEN /\ \E n \in 0..MaxChunks : c_remote' = [c_remote EXCEPT ![c] = n]
              /\ c_pc' = [c_pc EXCEPT ![c] = "stream"]
         ELSE /\ c_pc' = [c_pc EXCEPT ![c] = "cleanup"]
              /\ UNCHANGED c_remote
  /\ UNCHANGED <<cache_files, c_filename, c_expected, c_tmp, total_written, c_result>>

(* a download that writes its chunks straight to the final path *)
WriteChunkInPlace(c) ==
  /\ c_pc[c] = "stream"
  /\ total_written[c] < c_remote[c]
  /\ \E ok \in BOOLEAN :
       IF ok
         THEN /\ c_tmp' = [c_tmp EXCEPT ![c] = c_tmp[c] + 1]
              /\ total_written' = [total_written EXCEPT ![c] = total_written[c] + 1]
              /\ cache_files' = [cache_files EXCEPT ![c_filename[c]] = total_written[c] + 1]
              /\ UNCHANGED c_pc
         ELSE /\ c_pc' = [c_pc EXCEPT ![c] = "cleanup"]
              /\ UNCHANGED <<c_tmp, total_written, cache_files>>
  /\ UNCHANGED <<c_filename, c_expected, c_remote, c_requested, c_result>>

(* lines 107-110: one chunk written to the temp file, or the stream breaks *)
WriteChunk(c) ==
  /\ c_pc[c] = "stream"
  /\ total_written[c] < c_remote[c]
  /\ \E ok \in BOOLEAN :
       IF ok
         THEN /\ c_tmp' = [c_tmp EXCEPT ![c] = c_tmp[c] + 1]
              /\ total_written' = [total_written EXCEPT ![c] = total_written[c] + 1]
              /\ UNCHANGED c_pc
         ELSE /\ c_pc' = [c_pc EXCEPT ![c] = "cleanup"]
              /\ UNCHANGED <<c_tmp, total_written>>
  /\ UNCHANGED <<cache_files, c_filename, c_expected, c_remote, c_requested, c_result>>

(* lines 112-127 and 138: the stream is over; size validation, the empty *)
(* check and shutil.move of the temp file to the final path              *)
ValidateAndMove(c) ==
  /\ c_pc[c] = "stream"
  /\ total_written[c] = c_remote[c]
  /\ IF c_expected[c] # NoExpected /\ total_written[c] # c_expected[c]
       THEN /\ c_pc' = [c_pc EXCEPT ![c] = "cleanup"]
            /\ UNCHANGED <<cache_files, c_tmp, total_written, c_remote, c_result>>
       ELSE IF total_written[c] = 0
         THEN /\ c_pc' = [c_pc EXCEPT ![c] = "cleanup"]
              /\ UNCHANGED <<cache_files, c_tmp, total_written, c_remote, c_result>>
         ELSE \E ok \in BOOLEAN :
                IF ok
                  THEN /\ cache_files' = [cache_files EXCEPT ![c_filename[c]] = c_tmp[c]]
                       /\ c_tmp' = [c_tmp EXCEPT ![c] = NoFile]
                       /\ total_written' = [total_written EXCEPT ![c] = 0]
                       /\ c_remote' = [c_remote EXCEPT ![c] = 0]
                       /\ c_pc' = [c_pc EXCEPT ![c] = "returned"]
                       /\ c_result' =
                            [c_result EXCEPT ![c] = lora_local_path(c_filename[c])]
                  ELSE /\ c_pc' = [c_pc EXCEPT ![c] = "cleanup"]
                       /\ UNCHANGED <<cache_files, c_tmp, total_written, c_remote,
                                      c_result>>
  /\ UNCHANGED <<c_filename, c_expected, c_requested>>

(* lines 129-136: the temp file is removed and RuntimeError raised *)
CleanupTemp(c) ==
  /\ c_pc[c] = "cleanup"
  /\ c_tmp' = [c_tmp EXCEPT ![c] = NoFile]
  /\ total_written' = [total_written EXCEPT ![c] = 0]
  /\ c_remote' = [c_remote EXCEPT ![c] = 0]
  /\ c_pc' = [c_pc EXCEPT ![c] = "raised"]
  /\ UNCHANGED <<cache_files, c_filename, c_expected, c_requested, c_result>>

ensure_lora_cached(c) ==
  /\ \/ CallEnsure(c)
     \/ CheckCached(c)
     \/ RequestFile(c)
     \/ WriteChunk(c)
     \/ ValidateAndMove(c)
     \/ CleanupTemp(c)
  /\ UNCHANGED <<storeVars, workerVars, patchVars, uuidVars>>

(* ------------------------------------------------------------------ *)
(* Supabase helpers                                                     *)
(* ------------------------------------------------------------------ *)

Restrict(f, S) == [k \in S |-> f[k]]

(* bodies of an error response of the store, as _extract_missing_column *)
(* tells them apart                                                     *)
ErrorTexts ==
  [fmt : {"schema_cache", "does_not_exist"}, col : Columns \cup {"ghost_column"}]
    \cup {[fmt |-> "other", col |-> None]}

(* "Could not find the '<col>' column" / 'column "<col>" does not exist' *)
_extract_missing_column(postgrest_text) ==
  IF postgrest_text.fmt \in {"schema_cache", "does_not_exist"}
    THEN postgrest_text.col
    ELSE None

(* one pass of the for-loop of sb_patch_safe on the response r *)
PatchIter(working, r) ==
  IF 200 <= r.status_code /\ r.status_code < 300
    THEN [outcome |-> "return", working |-> working]
    ELSE IF r.status_code # 400 /\ r.status_code >= 400
      THEN [outcome |-> "raise", working |-> working]
      ELSE LET missing == _extract_missing_column(r.text) IN
           IF missing # None
             THEN [outcome |-> "continue",
                   working |-> Restrict(working, DOMAIN working \ {missing})]
             ELSE [outcome |-> "raise", working |-> working]

(* the store lacks the optional trigger_token column *)
StoreSchema == Columns \ {"trigger_token"}

(* what the store answers to a PATCH with this body: a fault of the store  *)
(* or the network, the first unknown column of the body, or 200           *)
StoreResponse(working, fault) ==
  IF fault # 200
    THEN [status_code |-> fault, text |-> [fmt |-> "other", col |-> None]]
    ELSE IF DOMAIN working \subseteq StoreSchema
      THEN [status_code |-> 200, text |-> [fmt |-> "other", col |-> None]]
      ELSE [status_code |-> 400,
            text |-> [fmt |-> "schema_cache",
                      col |-> CHOOSE c \in DOMAIN working \ StoreSchema : TRUE]]

RECURSIVE sb_patch_loop(_, _, _)
sb_patch_loop(working, n, fault) ==
  IF n = PATCH_ATTEMPTS
    THEN [outcome |-> "raise", working |-> working]
    ELSE LET it == PatchIter(working, StoreResponse(working, fault)) IN
         IF it.outcome = "continue"
           THEN sb_patch_loop(it.working, n + 1, fault)
           ELSE it

(* sb_patch_safe against the store: the body finally accepted, or raise *)
sb_patch_safe(payload, fault) == sb_patch_loop(payload, 0, fault)

(* rows selected by the filter params of a request *)
MatchingRows(params) ==
  {j \in Jobs : \A k \in DOMAIN params :
      IF k = "id" THEN j = params[k] ELSE db[j][k] = params[k]}

ApplyPatch(row, body) ==
  [f \in DOMAIN row |-> IF f \in DOMAIN body THEN body[f] ELSE row[f]]

(* the table after a PATCH that the store accepted *)
Patched(params, body) ==
  [j \in Jobs |-> IF j \in MatchingRows(params) THEN ApplyPatch(db[j], body) ELSE db[j]]

(* sb_get("user_loras", status=eq.queued, user_id=not.is.null,            *)
(*        order=created_at.asc, limit=1): ids of the rows returned        *)
RECURSIVE OldestFirst(_, _)
OldestFirst(S, limit) ==
  IF S = {} \/ limit = 0
    THEN <<>>
    ELSE LET j == CHOOSE x \in S : \A y \in S : db[x].created_at <= db[y].created_at
         IN <<j>> \o OldestFirst(S \ {j}, limit - 1)

(* the fetch without its status filter *)
sb_get_any_status ==
  OldestFirst({j \in Jobs : db[j].user_id # None}, FETCH_LIMIT)

(* the fetch ordered by id instead of created_at *)
sb_get_by_id ==
  LET S == {j \in Jobs : db[j].status = "queued" /\ db[j].user_id # None}
  IN IF S = {} THEN <<>> ELSE <<CHOOSE x \in S : \A y \in S : x <= y>>

sb_get ==
  OldestFirst({j \in Jobs : db[j].status = "queued" /\ db[j].user_id # None},
              FETCH_LIMIT)

(* ------------------------------------------------------------------ *)
(* Repeat logic, keys, payloads, messages                               *)
(* ------------------------------------------------------------------ *)

(* Python round(a / b) for positive integers: nearest, ties to even *)
RoundDiv(a, b) ==
  LET q == a \div b
      r == a % b
  IN IF 2 * r < b THEN q
     ELSE IF 2 * r > b THEN q + 1
     ELSE IF q % 2 = 0 THEN q ELSE q + 1

Max(a, b) == IF a >= b THEN a ELSE b

(* repeat by truncating division instead of round() *)
compute_repeat_floor(image_count) ==
  LET repeat == Max(1, TARGET_SAMPLES \div image_count)
  IN <<repeat, image_count * repeat>>

(* compute_repeat(image_count) = (repeat, effective samples) *)
compute_repeat(image_count) ==
  LET repeat == Max(1, RoundDiv(TARGET_SAMPLES, image_count))
  IN <<repeat, image_count * repeat>>

(* the dataset descriptor prepare_dataset returns for a valid count *)
Dataset(n) ==
  [steps |-> compute_repeat(n)[2], image_count |-> n, repeat |-> compute_repeat(n)[1]]

(* the artifact key with a name that differs from the published one *)
ArtifactKeyOther(id) == R2_ARTIFACT_PREFIX_ROOT \o "/" \o ToString(id) \o "/model.safetensors"

ArtifactKey(id) == R2_ARTIFACT_PREFIX_ROOT \o "/" \o ToString(id) \o "/final.safetensors"

ArtifactKeys == {ArtifactKey(j) : j \in Jobs}

(* the artifact check without its size test *)
ArtifactExists(size) == size # NoFile

(* run_training: os.path.exists(artifact) and getsize >= ARTIFACT_MIN_BYTES *)
ArtifactValid(size) == size # NoFile /\ size >= ARTIFACT_MIN_BYTES

(* r2_upload_artifact: the file exists and is not too small for upload *)
UploadPrecheck(size) == size # NoFile /\ ~(size < ARTIFACT_MIN_BYTES)

(* the image gate without its upper bound *)
CountAtLeastMin(n) == MIN_IMAGES <= n

(* prepare_dataset: MIN_IMAGES <= count <= MAX_IMAGES *)
CountInBounds(n) == MIN_IMAGES <= n /\ n <= MAX_IMAGES

(* bound: a length that a stored error text could be cut to, and the     *)
(* longest object key name                                               *)
MaxErrorLen == 40

RECURSIVE Pad(_)
Pad(n) == IF n = 0 THEN "" ELSE "k" \o Pad(n - 1)

(* length of the name of the k-th listed object: the first is short, the *)
(* others as long as MaxErrorLen                                         *)
KeyLen(k) == IF k = 1 THEN 1 ELSE MaxErrorLen

KeyLens == {KeyLen(1), KeyLen(2)}

(* r2_download_file: "R2 download failed: s3://<bucket>/<key> -> ..."  *)
DownloadFailedMsg(len) == "R2 download failed: " \o Pad(len)

DownloadFailures == {DownloadFailedMsg(len) : len \in KeyLens}

(* no _tmp dir and no final dir *)
EmptyScratch == [tmp |-> NoFile, final |-> NoFile]

(* how many of the listed objects are downloaded before the loop stops:  *)
(* the first or the last download fails, or all succeed                  *)
DownloadStops(keys) == {0, keys - 1, keys}

(* how many images are moved and captioned before the loop stops: the    *)
(* caption of the first image fails, or all succeed                      *)
CaptionStops(n) == {0, n}

(* a materialization that writes its downloads into the final dir *)
StageFailureInFinal(k) == [tmp |-> NoFile, final |-> k]

(* the dirs after a failure with k objects downloaded: they stay in _tmp *)
StageFailure(k) == [tmp |-> k, final |-> NoFile]

InvalidCountMsg(n) ==
  "Invalid image count: " \o ToString(n) \o " (expected " \o ToString(MIN_IMAGES)
    \o "-" \o ToString(MAX_IMAGES) \o ")"

ClaimPayload == [status |-> "training", progress |-> 1]

CompletedFields(id, key, ds) ==
  [status |-> "completed", progress |-> 100,
   artifact_r2_bucket |-> "R2_ARTIFACT_BUCKET",
   artifact_r2_key |-> key,
   dataset_r2_bucket |-> "R2_DATASET_BUCKET",
   dataset_r2_prefix |-> "lora_datasets/" \o ToString(id) \o "/",
   image_count |-> ds.image_count,
   trigger_token |-> "sf" \o ToString(id)]

MinimalFields(key) ==
  [status |-> "completed", progress |-> 100,
   artifact_r2_bucket |-> "R2_ARTIFACT_BUCKET",
   artifact_r2_key |-> key]

CompletedPayload(w) ==
  CompletedFields(lora_id[w], uploaded_r2_key[w], Dataset(count[w]))

MinimalPayload(w) == MinimalFields(uploaded_r2_key[w])

(* the failed payload without the text of the exception *)
FailedPayloadNoText(msg) == [status |-> "failed", progress |-> 0, error_message |-> None]

FailedPayload(msg) == [status |-> "failed", progress |-> 0, error_message |-> msg]

(* the filter of every PATCH of worker_main: {"id": "eq.<lora_id>"} *)
PatchParams(id) == [id |-> id]

NoProc == [spawned |-> FALSE, max_train_steps |-> 0, returncode |-> 0, marker |-> FALSE]

(* faults of a store or blob-store call: 200 is none *)
Faults == {200, 500}
ExitCodes == {0, 1}
ArtifactSizes == {NoFile, ARTIFACT_MIN_BYTES - 1, ARTIFACT_MIN_BYTES}

(* ------------------------------------------------------------------ *)
(* worker_main                                                          *)
(* ------------------------------------------------------------------ *)

Raise(w, msg) ==
  /\ pc' = [pc EXCEPT ![w] = "except"]
  /\ e' = [e EXCEPT ![w] = msg]

(* the iteration is over: cleanup_job_dirs has removed the job's local   *)
(* dirs (it does nothing when lora_id is None) and the loop head resets  *)
(* the locals                                                            *)
EndCycle(w, next) ==
  /\ pc' = [pc EXCEPT ![w] = next]
  /\ lora_id' = [lora_id EXCEPT ![w] = NoJob]
  /\ artifact_uploaded' = [artifact_uploaded EXCEPT ![w] = FALSE]
  /\ uploaded_r2_key' = [uploaded_r2_key EXCEPT ![w] = None]
  /\ count' = [count EXCEPT ![w] = NoCount]
  /\ proc' = [proc EXCEPT ![w] = NoProc]
  /\ out_file' = [out_file EXCEPT ![w] = NoFile]
  /\ e' = [e EXCEPT ![w] = None]
  /\ claim_result' = [claim_result EXCEPT ![w] = NoCount]
  /\ local_dirs' = [local_dirs EXCEPT ![w] = IF lora_id[w] # NoJob THEN {} ELSE @]
  /\ scratch' = [scratch EXCEPT ![w] = IF lora_id[w] # NoJob THEN EmptyScratch ELSE @]

(* lines 701-722: sb_get, idle sleep, pick jobs[0], sanitize_uuid of its *)
(* id; the ids of the rows are canonical or rejected by sanitize_uuid,   *)
(* so an accepted id names the row it was read from                      *)
Fetch(w) ==
  /\ pc[w] = "poll"
  /\ \E fault \in Faults :
       IF fault # 200
         THEN /\ Raise(w, "HTTPError")
              /\ UNCHANGED <<lora_id>>
         ELSE IF sb_get = <<>>
           THEN /\ pc' = [pc EXCEPT ![w] = "sleep"]
                /\ UNCHANGED <<lora_id, e>>
           ELSE IF sanitize_uuid(db[sb_get[1]].id).raised
             THEN /\ Raise(w, "Invalid UUID for user_loras.id")
                  /\ UNCHANGED <<lora_id>>
             ELSE /\ lora_id' = [lora_id EXCEPT ![w] = sb_get[1]]
                  /\ pc' = [pc EXCEPT ![w] = "claim"]
                  /\ UNCHANGED e
  /\ UNCHANGED <<storeVars, patchVars, artifact_uploaded, uploaded_r2_key,
                 count, proc, out_file, claim_result, local_dirs, scratch>>

(* line 715 / 791: time.sleep(POLL_SECONDS) *)
Sleep(w) ==
  /\ pc[w] = "sleep"
  /\ pc' = [pc EXCEPT ![w] = "poll"]
  /\ UNCHANGED <<storeVars, patchVars, lora_id, artifact_uploaded,
                 uploaded_r2_key, count, proc, out_file, e, claim_result, local_dirs, scratch>>

(* line 724: the claim write *)
Claim(w) ==
  /\ pc[w] = "claim"
  /\ \E fault \in Faults :
       LET res == sb_patch_safe(ClaimPayload, fault)
           params == PatchParams(lora_id[w])
       IN IF res.outcome = "return"
            THEN /\ db' = Patched(params, res.working)
                 /\ claim_result' =
                      [claim_result EXCEPT ![w] = Cardinality(MatchingRows(params))]
                 /\ pc' = [pc EXCEPT ![w] = "prepare"]
                 /\ UNCHANGED e
            ELSE /\ Raise(w, "HTTPError")
                 /\ UNCHANGED <<db, claim_result>>
  /\ UNCHANGED <<r2_images, r2_artifacts, patchVars, lora_id, artifact_uploaded,
                 uploaded_r2_key, count, proc, out_file, local_dirs, scratch>>

(* line 726: prepare_dataset. It recreates the job's train dir, lists     *)
(* the objects, downloads them one by one into _tmp, counts the images,   *)
(* and only then creates the final dir, moves each image into it with its *)
(* caption, and removes _tmp                                              *)
PrepareDataset(w) ==
  /\ pc[w] = "prepare"
  /\ local_dirs' = [local_dirs EXCEPT ![w] = {"train_dir"}]
  /\ LET n == r2_images[lora_id[w]].images
         keys == r2_images[lora_id[w]].images + r2_images[lora_id[w]].others
     IN
       IF keys = 0
         THEN /\ Raise(w, "No files found in R2 for this job")
              /\ scratch' = [scratch EXCEPT ![w] = EmptyScratch]
              /\ UNCHANGED count
         ELSE \E k \in DownloadStops(keys) :
                IF k < keys
                  THEN /\ Raise(w, DownloadFailedMsg(KeyLen(k + 1)))
                       /\ scratch' = [scratch EXCEPT ![w] = StageFailure(k)]
                       /\ UNCHANGED count
                  ELSE /\ count' = [count EXCEPT ![w] = n]
                       /\ IF ~CountInBounds(n)
                            THEN /\ Raise(w, InvalidCountMsg(n))
                                 /\ scratch' = [scratch EXCEPT ![w] = StageFailure(keys)]
                            ELSE \E moved \in CaptionStops(n) :
                                   IF moved < n
                                     THEN /\ Raise(w, "Caption failed")
                                          /\ scratch' = [scratch EXCEPT ![w] =
                                               [tmp |-> keys - moved - 1, final |-> moved + 1]]
                                     ELSE /\ pc' = [pc EXCEPT ![w] = "train"]
                                          /\ scratch' = [scratch EXCEPT ![w] =
                                               [tmp |-> NoFile, final |-> n]]
                                          /\ UNCHANGED e
  /\ UNCHANGED <<storeVars, patchVars, lora_id, artifact_uploaded,
                 uploaded_r2_key, proc, out_file, claim_result>>

(* line 727: run_training; the subprocess exits with any code, may have  *)
(* printed a failure marker, and leaves any file at the artifact path    *)
RunTraining(w) ==
  /\ pc[w] = "train"
  /\ \E code \in ExitCodes, marker \in BOOLEAN, size \in ArtifactSizes :
       /\ proc' = [proc EXCEPT ![w] =
                     [spawned |-> TRUE, max_train_steps |-> Dataset(count[w]).steps,
                      returncode |-> code, marker |-> marker]]
       /\ out_file' = [out_file EXCEPT ![w] = size]
       /\ local_dirs' = [local_dirs EXCEPT ![w] = local_dirs[w] \cup {"out_dir"}]
       /\ IF code # 0
            THEN Raise(w, "Training failed")
            ELSE IF ~ArtifactValid(size)
              THEN Raise(w, "Invalid artifact produced")
              ELSE /\ pc' = [pc EXCEPT ![w] = "upload"]
                   /\ UNCHANGED e
  /\ UNCHANGED <<storeVars, patchVars, lora_id, artifact_uploaded,
                 uploaded_r2_key, count, claim_result, scratch>>

(* lines 729-732: r2_upload_artifact to loras/<lora_id>/final.safetensors *)
Upload(w) ==
  /\ pc[w] = "upload"
  /\ uploaded_r2_key' = [uploaded_r2_key EXCEPT ![w] = ArtifactKey(lora_id[w])]
  /\ IF ~UploadPrecheck(out_file[w])
       THEN /\ Raise(w, "Artifact not valid for upload")
            /\ UNCHANGED <<r2_artifacts, artifact_uploaded>>
       ELSE \E fault \in Faults :
              IF fault # 200
                THEN /\ Raise(w, "R2 upload failed")
                     /\ UNCHANGED <<r2_artifacts, artifact_uploaded>>
                ELSE /\ r2_artifacts' =
                          [r2_artifacts EXCEPT ![ArtifactKey(lora_id[w])] = out_file[w]]
                     /\ artifact_uploaded' = [artifact_uploaded EXCEPT ![w] = TRUE]
                     /\ pc' = [pc EXCEPT ![w] = "complete"]
                     /\ UNCHANGED e
  /\ UNCHANGED <<db, r2_images, patchVars, lora_id, count, proc, out_file,
                 claim_result, local_dirs, scratch>>

(* lines 734-747 and 764-767: the completed write; on success notify,     *)
(* cleanup and back to the loop head                                      *)
CompletedPatch(w) ==
  /\ pc[w] = "complete"
  /\ \E fault \in Faults :
       LET res == sb_patch_safe(CompletedPayload(w), fault) IN
       IF res.outcome = "return"
         THEN /\ db' = Patched(PatchParams(lora_id[w]), res.working)
              /\ EndCycle(w, "poll")
         ELSE /\ pc' = [pc EXCEPT ![w] = "retry"]
              /\ UNCHANGED <<db, lora_id, artifact_uploaded, uploaded_r2_key,
                             count, proc, out_file, e, claim_result, local_dirs, scratch>>
  /\ UNCHANGED <<r2_images, r2_artifacts, patchVars>>

(* the minimal completed write whose failure marks the job failed *)
CompletedPatchRetryFails(w) ==
  /\ pc[w] = "retry"
  /\ \E fault \in Faults :
       LET res == sb_patch_safe(MinimalPayload(w), fault) IN
       /\ db' = IF res.outcome = "return"
                  THEN Patched(PatchParams(lora_id[w]), res.working)
                  ELSE Patched(PatchParams(lora_id[w]), FailedPayload("HTTPError"))
       /\ EndCycle(w, "poll")
  /\ UNCHANGED <<r2_images, r2_artifacts, patchVars>>

(* lines 748-767: the minimal completed write; its failure is logged only *)
CompletedPatchRetry(w) ==
  /\ pc[w] = "retry"
  /\ \E fault \in Faults :
       LET res == sb_patch_safe(MinimalPayload(w), fault) IN
       /\ db' = IF res.outcome = "return"
                  THEN Patched(PatchParams(lora_id[w]), res.working)
                  ELSE db
       /\ EndCycle(w, "poll")
  /\ UNCHANGED <<r2_images, r2_artifacts, patchVars>>

(* lines 769-791: except Exception *)
Handler(w) ==
  /\ pc[w] = "except"
  /\ IF artifact_uploaded[w] /\ lora_id[w] # NoJob /\ uploaded_r2_key[w] # None
       THEN UNCHANGED db
       ELSE IF lora_id[w] # NoJob
         THEN \E fault \in Faults :
                LET res == sb_patch_safe(FailedPayload(e[w]), fault) IN
                db' = IF res.outcome = "return"
                        THEN Patched(PatchParams(lora_id[w]), res.working)
                        ELSE db
         ELSE UNCHANGED db
  /\ EndCycle(w, "sleep")
  /\ UNCHANGED <<r2_images, r2_artifacts, patchVars>>

WorkerStep(w) ==
  /\ \/ Fetch(w)
     \/ Sleep(w)
     \/ Claim(w)
     \/ PrepareDataset(w)
     \/ RunTraining(w)
     \/ Upload(w)
     \/ CompletedPatch(w)
     \/ CompletedPatchRetry(w)
     \/ Handler(w)
  /\ UNCHANGED libVars

(* ------------------------------------------------------------------ *)
(* sb_patch_safe, request by request, against any store                 *)
(* ------------------------------------------------------------------ *)

StatusCodes == {200, 204, 304, 400, 404, 500}

Responses == [status_code : StatusCodes, text : ErrorTexts]

PatchAttempt ==
  /\ p_state = "running"
  /\ p_attempt < PATCH_ATTEMPTS
  /\ \E r \in Responses :
       LET it == PatchIter(p_working, r) IN
       /\ p_r' = r
       /\ p_working' = it.working
       /\ p_attempt' = p_attempt + 1
       /\ p_state' = IF it.outcome = "return" THEN "returned"
                     ELSE IF it.outcome = "raise" THEN "raised"
                     ELSE IF p_attempt + 1 = PATCH_ATTEMPTS THEN "raised"
                     ELSE "running"
  /\ UNCHANGED <<storeVars, workerVars, p_payload, libVars>>

(* ------------------------------------------------------------------ *)
(* initial states and specifications                                    *)
(* ------------------------------------------------------------------ *)

(* rows the producer has put into the store, with their datasets *)
JobKinds ==
  { [user_id |-> "u1", status |-> "queued", images |-> MIN_IMAGES, others |-> 0],
    [user_id |-> "u1", status |-> "queued", images |-> MAX_IMAGES + 1, others |-> 0],
    [user_id |-> "u2", status |-> "queued", images |-> MAX_IMAGES, others |-> 1],
    [user_id |-> "u2", status |-> "queued", images |-> MIN_IMAGES - 1, others |-> 0],
    [user_id |-> "u2", status |-> "queued", images |-> 0, others |-> 0],
    [user_id |-> "u2", status |-> "queued", images |-> 0, others |-> 1],
    [user_id |-> None, status |-> "queued", images |-> MIN_IMAGES, others |-> 0],
    [user_id |-> "u1", status |-> "idle", images |-> MIN_IMAGES, others |-> 0] }

Row(kind, j) ==
  [id |-> CanonicalId(j),
   status |-> kind.status, progress |-> 0, error_message |-> None,
   artifact_r2_key |-> None, user_id |-> kind.user_id,
   created_at |-> NumJobs - j]

StoreInit(kinds) ==
  /\ db = [j \in Jobs |-> Row(kinds[j], j)]
  /\ r2_images = [j \in Jobs |-> [images |-> kinds[j].images, others |-> kinds[j].others]]
  /\ r2_artifacts = [k \in ArtifactKeys |-> NoFile]

WorkerInit ==
  /\ pc = [w \in Workers |-> "poll"]
  /\ lora_id = [w \in Workers |-> NoJob]
  /\ artifact_uploaded = [w \in Workers |-> FALSE]
  /\ uploaded_r2_key = [w \in Workers |-> None]
  /\ count = [w \in Workers |-> NoCount]
  /\ proc = [w \in Workers |-> NoProc]
  /\ out_file = [w \in Workers |-> NoFile]
  /\ e = [w \in Workers |-> None]
  /\ claim_result = [w \in Workers |-> NoCount]
  /\ local_dirs = [w \in Workers |-> {}]
  /\ scratch = [w \in Workers |-> EmptyScratch]

(* no call of sanitize_uuid under way *)
UuidIdle ==
  /\ u_raw = <<>>
  /\ u_state = "idle"
  /\ u_out = <<>>

(* an empty cache directory and no call of ensure_lora_cached under way *)
CacheIdle ==
  /\ cache_files = [f \in Filenames |-> NoFile]
  /\ c_pc = [c \in Callers |-> "idle"]
  /\ c_filename = [c \in Callers |-> None]
  /\ c_expected = [c \in Callers |-> NoExpected]
  /\ c_remote = [c \in Callers |-> 0]
  /\ c_tmp = [c \in Callers |-> NoFile]
  /\ total_written = [c \in Callers |-> 0]
  /\ c_requested = [c \in Callers |-> FALSE]
  /\ c_result = [c \in Callers |-> None]

LibIdle == UuidIdle /\ CacheIdle

(* no request sent yet *)
NoResponse == [status_code |-> 0, text |-> [fmt |-> "other", col |-> None]]

PatchIdle ==
  /\ p_payload = ClaimPayload
  /\ p_working = ClaimPayload
  /\ p_attempt = 0
  /\ p_state = "idle"
  /\ p_r = NoResponse

Init ==
  /\ \E kinds \in [Jobs -> JobKinds] : StoreInit(kinds)
  /\ WorkerInit
  /\ PatchIdle
  /\ LibIdle

Next == \E w \in Workers : WorkerStep(w)

Spec == Init /\ [][Next]_vars

(* one worker alone against the store: the cycle of worker_main without  *)
(* interference                                                          *)
NextSolo == WorkerStep(1)

SpecSolo == Init /\ [][NextSolo]_vars

(* sb_patch_safe alone: any payload of the worker, any answers of the store *)
PatchPayloads ==
  { ClaimPayload,
    CompletedFields(1, ArtifactKey(1), Dataset(MIN_IMAGES)),
    MinimalFields(ArtifactKey(1)),
    FailedPayload("Training failed") }

QuietKinds ==
  [j \in Jobs |-> [user_id |-> "u1", status |-> "idle", images |-> MIN_IMAGES, others |-> 0]]

InitPatch ==
  /\ StoreInit(QuietKinds)
  /\ WorkerInit
  /\ p_payload \in PatchPayloads
  /\ p_working = p_payload
  /\ p_attempt = 0
  /\ p_state = "running"
  /\ p_r = NoResponse
  /\ LibIdle

NextPatch == PatchAttempt

SpecPatch == InitPatch /\ [][NextPatch]_vars

(* the pipeline of one worker over every dataset size: one queued job,   *)
(* the others idle                                                       *)
MaxListed == 22

InitDataset ==
  /\ \E n \in 0..MaxListed, m \in 0..1 :
       StoreInit([QuietKinds EXCEPT
                    ![1] = [user_id |-> "u1", status |-> "queued", images |-> n, others |-> m]])
  /\ WorkerInit
  /\ PatchIdle
  /\ LibIdle

NextDataset == WorkerStep(1)

SpecDataset == InitDataset /\ [][NextDataset]_vars

(* one worker against rows created in any order: every assignment of    *)
(* distinct created_at values to the rows, eligible or not               *)
FifoKinds ==
  { [user_id |-> "u1", status |-> "queued", images |-> MIN_IMAGES, others |-> 0],
    [user_id |-> "u2", status |-> "queued", images |-> MAX_IMAGES + 1, others |-> 0],
    [user_id |-> None, status |-> "queued", images |-> MIN_IMAGES, others |-> 0],
    [user_id |-> "u1", status |-> "idle", images |-> MIN_IMAGES, others |-> 0] }

CreationOrders ==
  {a \in [Jobs -> 0..(NumJobs - 1)] : \A j, k \in Jobs : a[j] = a[k] => j = k}

InitFifo ==
  /\ \E kinds \in [Jobs -> FifoKinds], a \in CreationOrders :
       /\ db = [j \in Jobs |-> [Row(kinds[j], j) EXCEPT !.created_at = a[j]]]
       /\ r2_images = [j \in Jobs |-> [images |-> kinds[j].images, others |-> kinds[j].others]]
       /\ r2_artifacts = [k \in ArtifactKeys |-> NoFile]
  /\ WorkerInit
  /\ PatchIdle
  /\ LibIdle

NextFifo == WorkerStep(1)

SpecFifo == InitFifo /\ [][NextFifo]_vars

(* sanitize_uuid alone, on every raw string up to MaxRaw characters *)
InitUuid ==
  /\ StoreInit(QuietKinds)
  /\ WorkerInit
  /\ PatchIdle
  /\ u_raw \in RawIds
  /\ u_state = "pending"
  /\ u_out = <<>>
  /\ CacheIdle

NextUuid == SanitizeUuid

SpecUuid == InitUuid /\ [][NextUuid]_vars

(* concurrent callers of ensure_lora_cached on one cache directory *)
InitCache ==
  /\ StoreInit(QuietKinds)
  /\ WorkerInit
  /\ PatchIdle
  /\ UuidIdle
  /\ CacheIdle

NextCache == \E c \in Callers : ensure_lora_cached(c)

SpecCache == InitCache /\ [][NextCache]_vars

(* what an attempt that was killed has left in the job's train dir: more *)
(* files than any listing of the model has                               *)
StaleScratch == [tmp |-> MaxListed + 2, final |-> MaxListed + 2]

(* one worker, one queued job with any dataset, started on a disk that   *)
(* is clean or holds the train dir of an earlier attempt at that job     *)
InitStage ==
  /\ \E n \in 0..MaxListed, m \in 0..1 :
       StoreInit([QuietKinds EXCEPT
                    ![1] = [user_id |-> "u1", status |-> "queued", images |-> n, others |-> m]])
  /\ pc = [w \in Workers |-> "poll"]
  /\ lora_id = [w \in Workers |-> NoJob]
  /\ artifact_uploaded = [w \in Workers |-> FALSE]
  /\ uploaded_r2_key = [w \in Workers |-> None]
  /\ count = [w \in Workers |-> NoCount]
  /\ proc = [w \in Workers |-> NoProc]
  /\ out_file = [w \in Workers |-> NoFile]
  /\ e = [w \in Workers |-> None]
  /\ claim_result = [w \in Workers |-> NoCount]
  /\ \E stale \in BOOLEAN :
       /\ local_dirs = [w \in Workers |-> IF stale THEN {"train_dir"} ELSE {}]
       /\ scratch = [w \in Workers |-> IF stale THEN StaleScratch ELSE EmptyScratch]
  /\ PatchIdle
  /\ LibIdle

NextStage == WorkerStep(1)

SpecStage == InitStage /\ [][NextStage]_vars

(* one worker that always gets its turn, against rows of every kind     *)
(* whose ids are canonical or no UUID at all, with a job store and a     *)
(* blob store that answer every call                                     *)
InitLive ==
  /\ \E kinds \in [Jobs -> JobKinds], bad \in SUBSET Jobs :
       /\ db = [j \in Jobs |->
                  [Row(kinds[j], j) EXCEPT !.id = IF j \in bad THEN BadId ELSE @]]
       /\ r2_images = [j \in Jobs |-> [images |-> kinds[j].images, others |-> kinds[j].others]]
       /\ r2_artifacts = [k \in ArtifactKeys |-> NoFile]
  /\ WorkerInit
  /\ PatchIdle
  /\ LibIdle

(* the step of w met no failure of the job store or of the blob store *)
StoreCallsSucceed(w) ==
  /\ e'[w] \notin ({"HTTPError", "R2 upload failed"} \cup DownloadFailures)
  /\ pc[w] = "complete" => pc'[w] # "retry"
  /\ (pc[w] = "except" /\ lora_id[w] # NoJob /\ ~artifact_uploaded[w]) =>
       db'[lora_id[w]].status = "failed"

NextLive == WorkerStep(1) /\ StoreCallsSucceed(1)

SpecLive == InitLive /\ [][NextLive]_vars /\ WF_vars(NextLive)

(* ------------------------------------------------------------------ *)
(* Properties                                                           *)
(* ------------------------------------------------------------------ *)

Moved(w) == pc'[w] # pc[w]

Terminal == {"completed", "failed"}

(* C1: claim exclusivity. Of the workers that fetched the same queued job *)
(* and sent the claim write, exactly one has its write applied; the write *)
(* of every other one affects zero rows. So at no time do two workers     *)
(* hold a claim on the same job that returned a row.                      *)
ClaimExclusive ==
  \A j \in Jobs :
    Cardinality({w \in Workers : lora_id[w] = j /\ claim_result[w] >= 1}) <= 1

(* C2: a job stored as completed has, at its artifact key, an object of   *)
(* at least ARTIFACT_MIN_BYTES; and a worker is past run_training, on its *)
(* way to the completed write, only with an artifact file that exists and *)
(* has at least ARTIFACT_MIN_BYTES, produced by a run that exited 0.      *)
CompletedHasValidArtifact ==
  /\ \A j \in Jobs :
       db[j].status = "completed" =>
         /\ r2_artifacts[ArtifactKey(j)] # NoFile
         /\ r2_artifacts[ArtifactKey(j)] >= ARTIFACT_MIN_BYTES
  /\ \A w \in Workers :
       pc[w] \in {"upload", "complete", "retry"} =>
         /\ proc[w].spawned
         /\ proc[w].returncode = 0
         /\ out_file[w] # NoFile
         /\ out_file[w] >= ARTIFACT_MIN_BYTES

(* C2 witness: a job is stored as completed *)
SomeJobCompleted ==
  \E j \in Jobs : db[j].status = "completed" /\ db[j].artifact_r2_key = ArtifactKey(j)

(* C3: a poll cycle that starts when a job is completed or failed never   *)
(* selects that job, and a cycle writes to no row but the one it selected: *)
(* the selection is made by the fetch only and is kept until the cycle    *)
(* ends, and every row a worker's step changes is the row it selected.    *)
TerminalNotReclaimed ==
  [][\A w \in Workers :
       Moved(w) =>
         /\ pc[w] = "poll" /\ lora_id'[w] # NoJob
              => db[lora_id'[w]].status \notin Terminal
         /\ pc[w] # "poll" /\ lora_id'[w] # lora_id[w]
              => lora_id'[w] = NoJob /\ pc'[w] \in {"poll", "sleep"}
         /\ \A j \in Jobs : db'[j] # db[j] => j = lora_id[w] /\ pc[w] # "poll"
    ]_vars

(* C3 witness: the older job 2 is completed or failed, no worker holds it, *)
(* and a worker has selected job 1 in a poll cycle and sent its claim     *)
LaterCycleAfterTerminal ==
  /\ NumJobs >= 2
  /\ db[2].status \in Terminal
  /\ \A w \in Workers : lora_id[w] # 2
  /\ \E w \in Workers : pc[w] = "prepare" /\ lora_id[w] = 1

(* C4: every change of a row's stored status follows one of the edges     *)
(* queued -> training, training -> completed, training -> failed.         *)
LegalEdges ==
  {<<"queued", "training">>, <<"training", "completed">>, <<"training", "failed">>}

OnlyLegalEdges ==
  [][\A j \in Jobs :
       db'[j].status # db[j].status => <<db[j].status, db'[j].status>> \in LegalEdges
    ]_vars

(* C5: when the downloaded dataset has an image count outside [10, 20],   *)
(* no training subprocess is spawned in that cycle, the worker is in the  *)
(* failure handler with a message naming the count, and the only write it *)
(* then makes sets the job failed with that message.                      *)
ImageGate ==
  [][\A w \in Workers :
       (count[w] # NoCount /\ ~(10 <= count[w] /\ count[w] <= 20)) =>
         /\ ~proc[w].spawned
         /\ pc[w] = "except"
         /\ e[w] = "Invalid image count: " \o ToString(count[w]) \o " (expected 10-20)"
         /\ Moved(w) =>
              /\ pc'[w] = "sleep"
              /\ \A j \in Jobs :
                   db'[j] # db[j] =>
                     /\ j = lora_id[w]
                     /\ db'[j].status = "failed"
                     /\ db'[j].error_message =
                          "Invalid image count: " \o ToString(count[w]) \o " (expected 10-20)"
    ]_vars

(* C5 witness: a job was written failed with the count 21 in its message *)
FailedWithCount ==
  \E j \in Jobs :
    /\ r2_images[j].images = 21
    /\ db[j].status = "failed"
    /\ db[j].error_message = "Invalid image count: 21 (expected 10-20)"

(* C6: a worker whose training subprocess exited 0 after printing a known *)
(* failure marker never writes status completed.                          *)
MarkerNeverCompleted ==
  [][\A w \in Workers :
       (Moved(w) /\ proc[w].spawned /\ proc[w].returncode = 0 /\ proc[w].marker) =>
         \A j \in Jobs : db'[j] # db[j] => db'[j].status # "completed"
    ]_vars

(* C7: once a worker's artifact upload has succeeded, no step of that     *)
(* worker in the same cycle writes anything but status completed: a       *)
(* failing completed write leaves the row as it was.                      *)
NoFailedAfterUpload ==
  [][\A w \in Workers :
       (Moved(w) /\ artifact_uploaded[w]) =>
         \A j \in Jobs :
           db'[j] # db[j] => j = lora_id[w] /\ db'[j].status = "completed"
    ]_vars

(* C7 witness: after the upload the first completed write has failed *)
CompletedWriteFailed ==
  \E w \in Workers :
    pc[w] = "retry" /\ artifact_uploaded[w] /\ r2_artifacts[uploaded_r2_key[w]] # NoFile

(* C8: on an unknown-column rejection sb_patch_safe removes exactly the  *)
(* named field, and the request that finally succeeds still carries every *)
(* required field (status, error_message) of the original payload.        *)
RequiredFields == {"status", "error_message"}

RequiredFieldsKept ==
  [][/\ p_working' # p_working =>
          \E c \in DOMAIN p_working : p_working' = Restrict(p_working, DOMAIN p_working \ {c})
     /\ p_state' = "returned" =>
          \A f \in RequiredFields \cap DOMAIN p_payload :
            f \in DOMAIN p_working' /\ p_working'[f] = p_payload[f]
    ]_vars

(* C9: for an image count n in 10..20 the repeat is the integer nearest   *)
(* to 1200 / n (at least 1), the effective samples are n * repeat, 10     *)
(* gives (120, 1200), 20 gives (60, 1200), and the subprocess is spawned  *)
(* with max_train_steps equal to the effective samples.                   *)
NearestRepeat(n, r) ==
  /\ r >= 1
  /\ 2 * r * n - 2 * 1200 <= n
  /\ 2 * 1200 - 2 * r * n <= n

RepeatAndSteps ==
  \A w \in Workers :
    (count[w] # NoCount /\ 10 <= count[w] /\ count[w] <= 20) =>
      LET n == count[w]
          ds == Dataset(n)
      IN /\ NearestRepeat(n, ds.repeat)
         /\ ds.steps = n * ds.repeat
         /\ n = 10 => ds.repeat = 120 /\ ds.steps = 1200
         /\ n = 20 => ds.repeat = 60 /\ ds.steps = 1200
         /\ proc[w].spawned =>
              \E r \in 1..1200 :
                NearestRepeat(n, r) /\ proc[w].max_train_steps = n * r

(* C9 witness: training was spawned for 14 images with 86 * 14 steps *)
SpawnedWithSteps ==
  \E w \in Workers :
    proc[w].spawned /\ count[w] = 14 /\ proc[w].max_train_steps = 1204

(* C10: a job is moved to training only when no other job of the same     *)
(* owner is queued or training.                                           *)
OneActivePerOwner ==
  [][\A j \in Jobs :
       (db[j].status # "training" /\ db'[j].status = "training") =>
         ~\E k \in Jobs \ {j} :
            /\ db[k].user_id = db[j].user_id
            /\ db[k].status \in {"queued", "training"}
    ]_vars

(* C21: prepare_dataset leaves a final dir only when the listing was not *)
(* empty, every listed object was downloaded and the image count is in   *)
(* [10, 20]; after an empty listing, a failed download or a count out of *)
(* bounds there is no final dir and the worker is in the handler; what   *)
(* it leaves never includes files of an earlier attempt; and it returns  *)
(* only with all images in the final dir and _tmp removed.               *)
AllOrNothing ==
  [][\A w \in Workers :
       (Moved(w) /\ pc[w] = "prepare") =>
         LET n == r2_images[lora_id[w]].images
             keys == r2_images[lora_id[w]].images + r2_images[lora_id[w]].others
             failed == \/ keys = 0
                       \/ \E len \in {1, MaxErrorLen} :
                            e'[w] = "R2 download failed: " \o Pad(len)
                       \/ ~(10 <= n /\ n <= 20)
         IN /\ scratch'[w].final # NoFile =>
                 /\ ~failed
                 /\ count'[w] = n
                 /\ scratch'[w].final >= 1 /\ scratch'[w].final <= n
                 /\ scratch'[w].tmp = NoFile \/ scratch'[w].tmp + scratch'[w].final = keys
            /\ failed =>
                 /\ pc'[w] = "except"
                 /\ scratch'[w].final = NoFile
                 /\ scratch'[w].tmp = NoFile \/ (scratch'[w].tmp >= 0 /\ scratch'[w].tmp <= keys)
            /\ keys = 0 => scratch'[w] = [tmp |-> NoFile, final |-> NoFile]
            /\ pc'[w] = "train" => scratch'[w] = [tmp |-> NoFile, final |-> n]
    ]_vars

(* C21 witness: the last of 12 downloads has failed: 11 files are in     *)
(* _tmp and there is no final dir                                        *)
PartialStaysInTmp ==
  \E w \in Workers :
    /\ pc[w] = "except"
    /\ e[w] \in DownloadFailures
    /\ r2_images[lora_id[w]].images = 12
    /\ scratch[w] = [tmp |-> 11, final |-> NoFile]

(* C22: a worker whose poll of the job store has failed stops: it takes  *)
(* no step back into the loop.                                           *)
PollFailureStops ==
  [][\A w \in Workers :
       (Moved(w) /\ pc[w] = "except" /\ lora_id[w] = NoJob /\ e[w] = "HTTPError") =>
         pc'[w] \notin {"sleep", "poll"}
    ]_vars

(* C23: the error_message stored with a failed status never has more     *)
(* than MaxErrorLen characters, however long the text of the exception.  *)
ErrorMessageBounded ==
  \A j \in Jobs :
    (db[j].status = "failed" /\ db[j].error_message # None) =>
      Len(db[j].error_message) <= MaxErrorLen

(* C11: a row has its artifact reference set exactly when its status is   *)
(* completed, and a reference that is set names an object that exists in  *)
(* the blob store with at least ARTIFACT_MIN_BYTES.                       *)
ArtifactRefIffCompleted ==
  \A j \in Jobs :
    /\ (db[j].artifact_r2_key # None) <=> (db[j].status = "completed")
    /\ db[j].artifact_r2_key # None =>
         /\ r2_artifacts[db[j].artifact_r2_key] # NoFile
         /\ r2_artifacts[db[j].artifact_r2_key] >= ARTIFACT_MIN_BYTES

(* C12: an exception raised in a cycle that has a job and has not         *)
(* uploaded the artifact is caught: the worker is in the handler, the     *)
(* handler can write status failed with the text of the exception to the  *)
(* row of that job, its step writes nothing else, and it leads back to    *)
(* the poll loop. No worker ever stops: every worker always has a step.   *)
PerJobErrorsCaught ==
  /\ [](\A w \in Workers : ENABLED WorkerStep(w))
  /\ [](\A w \in Workers :
          (pc[w] = "except" /\ lora_id[w] # NoJob /\ ~artifact_uploaded[w]) =>
            ENABLED (/\ Handler(w)
                     /\ db'[lora_id[w]].status = "failed"
                     /\ db'[lora_id[w]].error_message = e[w]))
  /\ [][\A w \in Workers :
          (Moved(w) /\ pc[w] = "except" /\ lora_id[w] # NoJob /\ ~artifact_uploaded[w]) =>
            /\ pc'[w] = "sleep"
            /\ e[w] # None
            /\ \A j \in Jobs :
                 db'[j] # db[j] =>
                   /\ j = lora_id[w]
                   /\ db'[j].status = "failed"
                   /\ db'[j].error_message = e[w]
     ]_vars
  /\ [][\A w \in Workers : (Moved(w) /\ pc[w] = "sleep") => pc'[w] = "poll"]_vars

(* C12 witness: a job was written failed with the text of a training      *)
(* failure and the same worker has fetched the next job                   *)
FailedThenNextJob ==
  \E w \in Workers, j \in Jobs :
    /\ db[j].status = "failed"
    /\ db[j].error_message = "Training failed"
    /\ pc[w] = "claim"
    /\ lora_id[w] # j

(* C13: publishing a valid artifact for a job whose artifact is already   *)
(* in the blob store goes to the same key loras/<job_id>/final.safetensors, *)
(* fails for no other reason than the transport, leaves the same object   *)
(* there, and the completed write of a row that already has an artifact   *)
(* reference leaves the reference as it was.                              *)
RepublishIdempotent ==
  [][\A w \in Workers :
       /\ (Moved(w) /\ pc[w] = "upload"
             /\ r2_artifacts[ArtifactKey(lora_id[w])] # NoFile) =>
            /\ uploaded_r2_key'[w] = "loras/" \o ToString(lora_id[w]) \o "/final.safetensors"
            /\ pc'[w] = "except" => e'[w] = "R2 upload failed"
            /\ pc'[w] # "except" =>
                 /\ pc'[w] = "complete"
                 /\ artifact_uploaded'[w]
                 /\ r2_artifacts' = r2_artifacts
       /\ (Moved(w) /\ pc[w] \in {"complete", "retry"}
             /\ db[lora_id[w]].artifact_r2_key # None) =>
            /\ pc'[w] # "except"
            /\ db'[lora_id[w]].artifact_r2_key = db[lora_id[w]].artifact_r2_key
            /\ db'[lora_id[w]].artifact_r2_key =
                 "loras/" \o ToString(lora_id[w]) \o "/final.safetensors"
    ]_vars

(* C13 witness: a job is stored completed with its artifact reference and *)
(* a second worker has published the artifact of the same job             *)
PublishedTwice ==
  \E w \in Workers, j \in Jobs :
    /\ db[j].status = "completed"
    /\ db[j].artifact_r2_key = ArtifactKey(j)
    /\ lora_id[w] = j
    /\ pc[w] = "complete"
    /\ artifact_uploaded[w]

(* C14: sanitize_uuid raises on every raw id that contains a control     *)
(* character.                                                            *)
ControlCharsRejected ==
  (u_state \in {"returned", "raised"} /\ \E i \in 1..Len(u_raw) : u_raw[i] = "\n")
    => u_state = "raised"

(* C15: a worker's step removes the local dirs of its job only when the *)
(* artifact upload of the cycle was confirmed, or when the row of the job *)
(* is stored completed or failed once the step is done.                   *)
CleanupAfterTerminal ==
  [][\A w \in Workers :
       (Moved(w) /\ local_dirs[w] # {} /\ local_dirs'[w] = {}) =>
         \/ artifact_uploaded[w]
         \/ db'[lora_id[w]].status \in Terminal
    ]_vars

(* C16: a call of ensure_lora_cached that has returned has left a        *)
(* non-empty file at the final path of its filename and returned that    *)
(* path; a file at a final path is never removed or emptied; and a call  *)
(* that looks up a filename whose file is there returns that same path   *)
(* at once, with no HTTP request and with the cache directory untouched. *)
DownloadedOnce ==
  /\ [](\A c \in Callers :
          c_pc[c] = "returned" =>
            /\ cache_files[c_filename[c]] # NoFile
            /\ cache_files[c_filename[c]] > 0
            /\ c_result[c] = "/workspace/cache/loras/" \o c_filename[c])
  /\ [][\A f \in Filenames :
          (cache_files[f] # NoFile /\ cache_files[f] > 0) =>
            (cache_files'[f] # NoFile /\ cache_files'[f] > 0)]_vars
  /\ [][\A c \in Callers :
          (c_pc[c] = "called" /\ c_pc'[c] # "called"
             /\ cache_files[c_filename[c]] # NoFile /\ cache_files[c_filename[c]] > 0) =>
            /\ c_pc'[c] = "returned"
            /\ c_result'[c] = "/workspace/cache/loras/" \o c_filename[c]
            /\ ~c_requested'[c]
            /\ cache_files' = cache_files
            /\ c_tmp' = c_tmp
     ]_vars

(* C16 witness: one caller has downloaded a file and returned, and a     *)
(* later call of the other caller for the same filename has returned     *)
(* without a request                                                    *)
ServedFromCache ==
  \E c, d \in Callers :
    /\ c # d
    /\ c_pc[c] = "returned" /\ c_requested[c]
    /\ c_pc[d] = "returned" /\ ~c_requested[d]
    /\ c_filename[d] = c_filename[c]
    /\ c_result[d] = c_result[c]

(* C17: a worker whose claim write comes when the row is no longer queued *)
(* changes nothing in the store and does not go on to prepare_dataset.    *)
LostClaimStops ==
  [][\A w \in Workers :
       (Moved(w) /\ pc[w] = "claim" /\ db[lora_id[w]].status # "queued") =>
         /\ db' = db
         /\ pc'[w] # "prepare"
    ]_vars

(* C18: the job a worker selects in a poll cycle is queued with a        *)
(* non-null user_id at fetch time and no job that is queued with a       *)
(* non-null user_id at that time has a smaller created_at; the fetch     *)
(* selects a job whenever there is such a job and the store answers; and *)
(* the claim write goes to the selected job and to no other row.         *)
Eligible(j) == db[j].status = "queued" /\ db[j].user_id # None

FifoSelection ==
  [][\A w \in Workers :
       /\ (Moved(w) /\ pc[w] = "poll" /\ lora_id'[w] # NoJob) =>
            /\ Eligible(lora_id'[w])
            /\ \A k \in Jobs :
                 Eligible(k) => db[lora_id'[w]].created_at <= db[k].created_at
       /\ (Moved(w) /\ pc[w] = "poll" /\ pc'[w] = "sleep") =>
            ~\E k \in Jobs : Eligible(k)
       /\ (Moved(w) /\ pc[w] = "claim") =>
            /\ pc'[w] = "prepare" => lora_id'[w] = lora_id[w]
            /\ \A j \in Jobs : db'[j] # db[j] => j = lora_id[w]
    ]_vars

(* C18 witness: job 1 is older than job 2, both were eligible, and the   *)
(* worker has claimed job 1 while job 2 is still queued                  *)
OlderClaimedFirst ==
  /\ NumJobs >= 2
  /\ db[1].created_at < db[2].created_at
  /\ db[1].status = "training"
  /\ Eligible(2)
  /\ \E w \in Workers : pc[w] = "prepare" /\ lora_id[w] = 1

(* C19: a call of sb_patch_safe sends at most 12 requests and is over    *)
(* after the 12th; it returns exactly on a 2xx response; on a non-2xx    *)
(* response that is not a 400 naming an unknown column it raises at once *)
(* with the payload untouched; it goes on to another request only after  *)
(* a 400 naming an unknown column.                                       *)
UnknownColumn400(r) ==
  r.status_code = 400 /\ r.text.fmt \in {"schema_cache", "does_not_exist"}

PatchBounded ==
  /\ [](p_attempt <= 12 /\ (p_state = "running" => p_attempt < 12))
  /\ [][/\ p_attempt' = p_attempt + 1
        /\ p_state' = "returned" <=> (200 <= p_r'.status_code /\ p_r'.status_code < 300)
        /\ (~(200 <= p_r'.status_code /\ p_r'.status_code < 300) /\ ~UnknownColumn400(p_r')) =>
             p_state' = "raised" /\ p_working' = p_working
        /\ p_state' = "running" => UnknownColumn400(p_r')
        /\ p_working' # p_working => UnknownColumn400(p_r')
        /\ (UnknownColumn400(p_r') /\ p_state' = "raised") => p_attempt' = 12
     ]_vars

(* C20: a row's error_message is set only if its status is failed.        *)
ErrorOnlyOnFailed ==
  \A j \in Jobs : db[j].error_message # None => db[j].status = "failed"

(* C24: every job that is queued with a non-null user_id and an id that  *)
(* sanitize_uuid accepts is eventually completed or failed.               *)
QueueDrains ==
  \A j \in Jobs :
    (Eligible(j) /\ ~sanitize_uuid(db[j].id).raised) ~> (db[j].status \in Terminal)

ReturnedFileHasExpectedSize ==
  [][\A c \in Callers :
       (c_pc'[c] = "returned" /\ c_pc[c] # "returned" /\ c_expected[c] # NoExpected) =>
         cache_files'[c_filename[c]] = c_expected[c]
  ]_vars

====
